---- MODULE Spec2Model ----
(***************************************************************************)
(* State-machine model of the todoapp backend: the SQLite store behind     *)
(* models/*.py, the repository functions of cruds/*.py, the bearer-token   *)
(* service of security/auth.py and the request handlers of routers/*.py.   *)
(* One action is one HTTP request (token resolution, then the handler      *)
(* body, then the response), or the passing of time.                       *)
(***************************************************************************)
EXTENDS Integers, FiniteSets, Sequences, TLC

VARIABLES
    users,   \* table todo_user: user_id -> [name, password]
    items,   \* table todo_item: item_id -> [task_name, user_id, expire_date, finished_date]
    tokens,  \* bookkeeping: the bearer tokens handed out so far, with their issue time
    now,     \* the clock (datetime.utcnow()), in ticks
    sent,    \* arguments of the request answered in the last step
    resp,    \* the response to the request answered in the last step
    inflight \* requests whose token is resolved and whose handler has not run yet

vars == <<users, items, tokens, now, sent, resp, inflight>>

----------------------------------------------------------------------------
(* Bounds of the model *)

MaxItemId == 2        \* rows of todo_item carry ids 1..MaxItemId
MaxTokens == 1        \* tokens handed out and remembered
MaxTick == 2          \* ticks the clock is followed after an instant of interest
TicksPerSecond == 2   \* resolution of the clock

(* Sample values of the request fields *)

UserIds == {"u1", "me"}
Names == {"Alice"}
Passwords == {"p", "q"}
TaskNames == {"buy milk"}

----------------------------------------------------------------------------
(* datetime values.  A datetime is a wall-clock reading with or without a   *)
(* UTC offset; Python never finds a naive and an aware datetime equal.      *)

NoDate == [wall |-> 0, tz |-> "none"]       \* None
UnsetDate == [wall |-> 0, tz |-> "unset"]   \* field not in model_fields_set
Dates == {[wall |-> 1, tz |-> "naive"], [wall |-> 1, tz |-> "aware"]}
ExpireDates == {[wall |-> 2, tz |-> "aware"]}

\* Column(DateTime) on SQLite: the value is written as its wall-clock fields
\* (year .. microsecond) and read back as a naive datetime.
DateTimeColumn(d) == IF d = NoDate THEN NoDate ELSE [wall |-> d.wall, tz |-> "naive"]

----------------------------------------------------------------------------
(* schemas *)

NoneId == 0       \* item_id: None
UnsetId == -1     \* item_id not in model_fields_set
NoneStr == "None"

\* schemas.item.Item as a request body, with the fields the client left unset
ItemBodies ==
    [item_id : {UnsetId, NoneId} \cup (1..MaxItemId),
     task_name : TaskNames,
     user_id : UserIds,
     expire_date : ExpireDates,
     finished_date : {UnsetDate, NoDate, [wall |-> 1, tz |-> "naive"]}]

\* schemas.user.User as a request body
UserBodies == [user_id : UserIds, name : Names, password : Passwords]

NoItem == [item_id |-> NoneId, task_name |-> NoneStr, user_id |-> NoneStr,
           expire_date |-> NoDate, finished_date |-> NoDate]
NoUser == [user_id |-> NoneStr, name |-> NoneStr, password |-> NoneStr]

\* ItemSchema.model_validate(row), UserSchema.model_validate(row)
ItemSchema(tbl, id) ==
    [item_id |-> id, task_name |-> tbl[id].task_name, user_id |-> tbl[id].user_id,
     expire_date |-> tbl[id].expire_date, finished_date |-> tbl[id].finished_date]
UserSchema(tbl, id) ==
    [user_id |-> id, name |-> tbl[id].name, password |-> tbl[id].password]

----------------------------------------------------------------------------
(* The store *)

Drop(tbl, id) == [k \in DOMAIN tbl \ {id} |-> tbl[k]]
Put(tbl, id, row) == [k \in DOMAIN tbl \cup {id} |-> IF k = id THEN row ELSE tbl[k]]

SetMax(S) == CHOOSE m \in S : \A k \in S : k <= m

\* Integer primary key of SQLite: a row inserted without an id takes the
\* largest id in the table plus one.
Autoincrement(tbl) == IF DOMAIN tbl = {} THEN 1 ELSE SetMax(DOMAIN tbl) + 1


\* The session: both tables of tododb.sqlite.  The engine never turns on
\* PRAGMA foreign_keys, so SQLite checks no foreign key; NOT NULL and the
\* primary keys are checked.
Session(usr, itm) == [users |-> usr, items |-> itm]

----------------------------------------------------------------------------
(* cruds/item.py.  Every function returns [ret, db]: its result and the     *)
(* store it leaves behind (the store as it was after a rollback).           *)

get_item(db) == {ItemSchema(db.items, id) : id \in DOMAIN db.items}

get_item_by_user_id(db, user_id) ==
    {ItemSchema(db.items, id) : id \in {k \in DOMAIN db.items : db.items[k].user_id = user_id}}

get_item_by_id(db, item_id) ==
    IF item_id \in DOMAIN db.items THEN ItemSchema(db.items, item_id) ELSE NoItem

\* delete_item that answers True whether or not it found the row.
delete_item_always_true(db, item_id) ==
    IF item_id \in DOMAIN db.items
    THEN [ret |-> TRUE, db |-> Session(db.users, Drop(db.items, item_id))]
    ELSE [ret |-> TRUE, db |-> db]

delete_item(db, item_id) ==
    IF item_id \in DOMAIN db.items
    THEN [ret |-> TRUE, db |-> Session(db.users, Drop(db.items, item_id))]
    ELSE [ret |-> FALSE, db |-> db]

\* ItemModel(**item.model_dump(exclude_unset=True)): an item_id the client set
\* goes into the INSERT; an unset or null one is left to the store.
create_item(db, item) ==
    LET id == IF item.item_id \in {UnsetId, NoneId}
              THEN Autoincrement(db.items) ELSE item.item_id
        row == [task_name |-> item.task_name,
                user_id |-> item.user_id,
                expire_date |-> DateTimeColumn(item.expire_date),
                finished_date |-> IF item.finished_date = UnsetDate THEN NoDate
                                  ELSE DateTimeColumn(item.finished_date)]
        stored == Put(db.items, id, row)
    IN  IF id \in DOMAIN db.items
        THEN [ret |-> NoItem, db |-> db]    \* UNIQUE constraint failed: rollback
        ELSE [ret |-> ItemSchema(stored, id), db |-> Session(db.users, stored)]

\* setattr(item, key, value) for every field of model_dump(exclude_unset=True),
\* item_id among them when the client set it.
update_item(db, item_id, item_data) ==
    IF item_id \notin DOMAIN db.items THEN [ret |-> NoItem, db |-> db]
    ELSE
    LET old == db.items[item_id]
        id == IF item_data.item_id = UnsetId THEN item_id ELSE item_data.item_id
        row == [task_name |-> item_data.task_name,
                user_id |-> item_data.user_id,
                expire_date |-> DateTimeColumn(item_data.expire_date),
                finished_date |-> IF item_data.finished_date = UnsetDate
                                  THEN old.finished_date
                                  ELSE DateTimeColumn(item_data.finished_date)]
        stored == Put(Drop(db.items, item_id), id, row)
    IN  IF id = NoneId \/ (id # item_id /\ id \in DOMAIN db.items)
        THEN [ret |-> NoItem, db |-> db]    \* IntegrityError: rollback
        ELSE [ret |-> ItemSchema(stored, id), db |-> Session(db.users, stored)]

\* update_finished_date that assigns the field only when given a datetime
\* (if finished_date: ...): None clears nothing.
update_finished_date_if_given(db, item_id, finished_date) ==
    IF item_id \notin DOMAIN db.items THEN [ret |-> NoItem, db |-> db]
    ELSE
    LET stored == IF finished_date = NoDate THEN db.items
                  ELSE [db.items EXCEPT ![item_id].finished_date = DateTimeColumn(finished_date)]
    IN  [ret |-> ItemSchema(stored, item_id), db |-> Session(db.users, stored)]

update_finished_date(db, item_id, finished_date) ==
    IF item_id \notin DOMAIN db.items THEN [ret |-> NoItem, db |-> db]
    ELSE
    LET stored == [db.items EXCEPT ![item_id].finished_date = DateTimeColumn(finished_date)]
    IN  [ret |-> ItemSchema(stored, item_id), db |-> Session(db.users, stored)]

----------------------------------------------------------------------------
(* cruds/user.py *)

\* get_user_by_id_and_password without the password in the WHERE clause.
get_user_by_id_any_password(db, user_id, password) ==
    IF user_id \in DOMAIN db.users THEN UserSchema(db.users, user_id) ELSE NoUser

get_user_by_id_and_password(db, user_id, password) ==
    IF user_id \in DOMAIN db.users /\ db.users[user_id].password = password
    THEN UserSchema(db.users, user_id) ELSE NoUser

get_user_by_id(db, user_id) ==
    IF user_id \in DOMAIN db.users THEN UserSchema(db.users, user_id) ELSE NoUser

get_users(db) == {UserSchema(db.users, id) : id \in DOMAIN db.users}

\* create_user that stores the row whether or not the user_id is taken
\* (session.merge in place of session.add).
create_user_merge(db, user_data) ==
    LET stored == Put(db.users, user_data.user_id,
                      [name |-> user_data.name, password |-> user_data.password])
    IN  [ret |-> UserSchema(stored, user_data.user_id), db |-> Session(stored, db.items)]

create_user(db, user_data) ==
    LET stored == Put(db.users, user_data.user_id,
                      [name |-> user_data.name, password |-> user_data.password])
    IN  IF user_data.user_id \in DOMAIN db.users
        THEN [ret |-> NoUser, db |-> db]    \* UNIQUE constraint failed: rollback
        ELSE [ret |-> UserSchema(stored, user_data.user_id),
              db |-> Session(stored, db.items)]

\* setattr(user, key, value) for every field of model_dump(), user_id among
\* them: the row's primary key is rewritten.  The rows of todo_item are not
\* touched (relationship() without passive_updates=False, no foreign keys).
update_user(db, user_id, user_data) ==
    IF user_id \notin DOMAIN db.users THEN [ret |-> NoUser, db |-> db]
    ELSE
    LET id == user_data.user_id
        stored == Put(Drop(db.users, user_id), id,
                      [name |-> user_data.name, password |-> user_data.password])
    IN  IF id # user_id /\ id \in DOMAIN db.users
        THEN [ret |-> NoUser, db |-> db]    \* UNIQUE constraint failed: rollback
        ELSE [ret |-> UserSchema(stored, id), db |-> Session(stored, db.items)]

\* session.delete(user): relationship("Item") carries no delete cascade, so the
\* flush first sets user_id = NULL on every item of the user, which the
\* NOT NULL column refuses.
delete_user(db, user_id) ==
    IF user_id \notin DOMAIN db.users THEN [ret |-> FALSE, db |-> db]
    ELSE IF get_item_by_user_id(db, user_id) # {}
    THEN [ret |-> FALSE, db |-> db]         \* NOT NULL constraint failed: rollback
    ELSE [ret |-> TRUE, db |-> Session(Drop(db.users, user_id), db.items)]

----------------------------------------------------------------------------
(* security/auth.py *)

ExpireHours == 24
DayTicks == ExpireHours * 3600 * TicksPerSecond

NoToken == [sig |-> "none", user_id |-> NoneStr, exp |-> 0]
\* a string that is no token signed with SECRET_KEY
GarbageToken == [sig |-> "bad", user_id |-> NoneStr, exp |-> 0]

\* jwt.encode writes the claim exp as a whole number of seconds
\* (timegm(expire.utctimetuple())): the fraction of the second is dropped.
create_access_token(user_id, clock) ==
    [sig |-> "HS256", user_id |-> user_id,
     exp |-> (clock \div TicksPerSecond) + ExpireHours * 3600]

\* jwt_decode with the expiry test exp < now: the token lives one instant longer.
jwt_decode_strict(token, clock) ==
    IF token.sig # "HS256" THEN "DecodeError"
    ELSE IF token.exp * TicksPerSecond < clock THEN "ExpiredSignatureError"
    ELSE "payload"

\* jwt.decode: the signature, then the claim exp against the clock
\* (expired when exp <= now).
jwt_decode(token, clock) ==
    IF token.sig # "HS256" THEN "DecodeError"
    ELSE IF token.exp * TicksPerSecond <= clock THEN "ExpiredSignatureError"
    ELSE "payload"

\* The names the module jwt exports that the code reads.  PyJWT names its base
\* error PyJWTError; it has no attribute JWTError.
JwtExports == {"encode", "decode", "ExpiredSignatureError"}

AuthResult(status, detail, user) == [status |-> status, detail |-> detail, user |-> user]

\* The two except clauses, tried in order on whatever the try block raised
\* (the HTTPExceptions of lines 29 and 33 included).  Reaching the second
\* clause evaluates jwt.JWTError.
ExceptClauses(raised, status, detail) ==
    IF raised = "ExpiredSignatureError" THEN AuthResult(401, "token expired", NoUser)
    ELSE IF "JWTError" \notin JwtExports THEN AuthResult(500, "AttributeError", NoUser)
    ELSE IF raised = "DecodeError" THEN AuthResult(401, "invalid token", NoUser)
    ELSE AuthResult(status, detail, NoUser)

get_current_user(token, db, clock) ==
    LET decoded == jwt_decode(token, clock)
        user == get_user_by_id(db, token.user_id)
    IN  IF decoded # "payload" THEN ExceptClauses(decoded, 0, "")
        ELSE IF token.user_id = NoneStr
        THEN ExceptClauses("HTTPException", 401, "invalid token")
        ELSE IF user = NoUser
        THEN ExceptClauses("HTTPException", 401, "user not found")
        ELSE AuthResult(200, "", user)

----------------------------------------------------------------------------
(* Responses.  op is the handler the request was routed to; caller is the   *)
(* user_id get_current_user resolved ("None" when it resolved none).        *)

Response(op, status, detail, caller, item, user, token) ==
    [op |-> op, status |-> status, detail |-> detail, caller |-> caller,
     item |-> item, user |-> user, token |-> token]

Reply(rsp, db) == [resp |-> rsp, db |-> db]

\* Depends(get_current_user) failed: the handler is not called.
Rejected(op, auth, db) ==
    Reply(Response(op, auth.status, auth.detail, NoneStr, NoItem, NoUser, NoToken), db)

----------------------------------------------------------------------------
(* routers/item.py *)

read_items_endpoint(db, clock, token) ==
    LET current_user == get_current_user(token, db, clock)
    IN  IF current_user.status # 200 THEN Rejected("read_items_endpoint", current_user, db)
        ELSE Reply(Response("read_items_endpoint", 200, "", current_user.user.user_id,
                            NoItem, NoUser, NoToken), db)

read_item_endpoint(db, clock, token, item_id) ==
    LET current_user == get_current_user(token, db, clock)
        item == get_item_by_id(db, item_id)
    IN  IF current_user.status # 200 THEN Rejected("read_item_endpoint", current_user, db)
        ELSE IF item = NoItem
        THEN Reply(Response("read_item_endpoint", 404, "Item not found",
                            current_user.user.user_id, NoItem, NoUser, NoToken), db)
        ELSE Reply(Response("read_item_endpoint", 200, "", current_user.user.user_id,
                            item, NoUser, NoToken), db)

delete_item_endpoint(db, clock, token, item_id) ==
    LET current_user == get_current_user(token, db, clock)
        deleted == delete_item(db, item_id)
    IN  IF current_user.status # 200 THEN Rejected("delete_item_endpoint", current_user, db)
        ELSE IF ~deleted.ret
        THEN Reply(Response("delete_item_endpoint", 404, "Item not found",
                            current_user.user.user_id, NoItem, NoUser, NoToken), deleted.db)
        ELSE Reply(Response("delete_item_endpoint", 200, "Item deleted successfully",
                            current_user.user.user_id, NoItem, NoUser, NoToken), deleted.db)

finish_item_endpoint(db, clock, token, item_id, finished_date) ==
    LET current_user == get_current_user(token, db, clock)
        item == update_finished_date(db, item_id, finished_date)
    IN  IF current_user.status # 200 THEN Rejected("finish_item_endpoint", current_user, db)
        ELSE IF item.ret = NoItem
        THEN Reply(Response("finish_item_endpoint", 404, "Item not found",
                            current_user.user.user_id, NoItem, NoUser, NoToken), item.db)
        ELSE Reply(Response("finish_item_endpoint", 200, "", current_user.user.user_id,
                            item.ret, NoUser, NoToken), item.db)

\* create_item_endpoint without line 50: the body's user_id is stored.
create_item_endpoint_body_owner(db, clock, token, item) ==
    LET current_user == get_current_user(token, db, clock)
        new_item == create_item(db, item)
    IN  IF current_user.status # 200 THEN Rejected("create_item_endpoint", current_user, db)
        ELSE Reply(Response("create_item_endpoint", 201, "", current_user.user.user_id,
                            new_item.ret, NoUser, NoToken), new_item.db)

\* The body of create_item_endpoint, run with the user get_current_user
\* returned: item.user_id = current_user.user_id, then create_item;
\* create_item raises nothing, so whatever it returns (None too) goes out
\* with status 201.
create_item_endpoint_body(db, current_user, item) ==
    LET new_item == create_item(db, [item EXCEPT !.user_id = current_user.user_id])
    IN  Reply(Response("create_item_endpoint", 201, "", current_user.user_id,
                       new_item.ret, NoUser, NoToken), new_item.db)

create_item_endpoint(db, clock, token, item) ==
    LET current_user == get_current_user(token, db, clock)
    IN  IF current_user.status # 200 THEN Rejected("create_item_endpoint", current_user, db)
        ELSE create_item_endpoint_body(db, current_user.user, item)

\* raise_not_found sits inside the try: its HTTPException is an Exception, so
\* the except clause answers it with raise_bad_request.
update_item_endpoint(db, clock, token, item_id, item) ==
    LET current_user == get_current_user(token, db, clock)
        updated_item == update_item(db, item_id,
                                    [item EXCEPT !.user_id = current_user.user.user_id])
    IN  IF current_user.status # 200 THEN Rejected("update_item_endpoint", current_user, db)
        ELSE IF updated_item.ret = NoItem
        THEN Reply(Response("update_item_endpoint", 400, "Failed to update item",
                            current_user.user.user_id, NoItem, NoUser, NoToken),
                   updated_item.db)
        ELSE Reply(Response("update_item_endpoint", 200, "", current_user.user.user_id,
                            updated_item.ret, NoUser, NoToken), updated_item.db)

----------------------------------------------------------------------------
(* routers/user.py *)

read_users_endpoint(db, clock, token) ==
    LET current_user == get_current_user(token, db, clock)
    IN  IF current_user.status # 200 THEN Rejected("read_users_endpoint", current_user, db)
        ELSE Reply(Response("read_users_endpoint", 200, "", current_user.user.user_id,
                            NoItem, NoUser, NoToken), db)

read_user_by_id_endpoint(db, clock, token, user_id) ==
    LET current_user == get_current_user(token, db, clock)
        user == get_user_by_id(db, user_id)
    IN  IF current_user.status # 200
        THEN Rejected("read_user_by_id_endpoint", current_user, db)
        ELSE IF user = NoUser
        THEN Reply(Response("read_user_by_id_endpoint", 404, "user not found",
                            current_user.user.user_id, NoItem, NoUser, NoToken), db)
        ELSE Reply(Response("read_user_by_id_endpoint", 200, "", current_user.user.user_id,
                            NoItem, user, NoToken), db)

get_my_info(db, clock, token) ==
    LET current_user == get_current_user(token, db, clock)
    IN  IF current_user.status # 200 THEN Rejected("get_my_info", current_user, db)
        ELSE Reply(Response("get_my_info", 200, "", current_user.user.user_id,
                            NoItem, current_user.user, NoToken), db)

\* The GET routes of the router, in the order the decorators register them.
GetRoutes == << [path |-> "/", endpoint |-> "read_users_endpoint"],
                [path |-> "/{user_id}", endpoint |-> "read_user_by_id_endpoint"],
                [path |-> "/me", endpoint |-> "get_my_info"] >>

\* A request path under /users is "/" or "/" followed by one segment; it is
\* given here by the segment ("" for "/").  {user_id} takes any segment.
PathMatches(pattern, segment) ==
    \/ pattern = "/" /\ segment = ""
    \/ pattern = "/{user_id}" /\ segment # ""
    \/ pattern = "/me" /\ segment = "me"

\* Starlette hands the request to the first route that matches.
RouteGet(segment) ==
    LET hits == {i \in 1..Len(GetRoutes) : PathMatches(GetRoutes[i].path, segment)}
        first == CHOOSE i \in hits : \A j \in hits : i <= j
    IN  GetRoutes[first].endpoint

\* GET /users/<segment>
get_users_path(db, clock, token, segment) ==
    LET endpoint == RouteGet(segment)
    IN  IF endpoint = "read_users_endpoint" THEN read_users_endpoint(db, clock, token)
        ELSE IF endpoint = "get_my_info" THEN get_my_info(db, clock, token)
        ELSE read_user_by_id_endpoint(db, clock, token, segment)

create_user_endpoint(db, user) ==
    LET created_user == create_user(db, user)
    IN  IF created_user.ret = NoUser
        THEN Reply(Response("create_user_endpoint", 400, "user creation failed",
                            NoneStr, NoItem, NoUser, NoToken), created_user.db)
        ELSE Reply(Response("create_user_endpoint", 201, "", NoneStr,
                            NoItem, created_user.ret, NoToken), created_user.db)

\* POST /users/login
read_user_by_id_and_password_endpoint(db, clock, user_id, password) ==
    LET user == get_user_by_id_and_password(db, user_id, password)
    IN  IF user = NoUser
        THEN Reply(Response("read_user_by_id_and_password_endpoint", 400,
                            "authentication failed", NoneStr, NoItem, NoUser, NoToken), db)
        ELSE Reply(Response("read_user_by_id_and_password_endpoint", 200, "", NoneStr,
                            NoItem, user, create_access_token(user.user_id, clock)), db)

update_user_endpoint(db, clock, token, user_id, user) ==
    LET current_user == get_current_user(token, db, clock)
        updated_user == update_user(db, user_id, user)
    IN  IF current_user.status # 200 THEN Rejected("update_user_endpoint", current_user, db)
        ELSE IF updated_user.ret = NoUser
        THEN Reply(Response("update_user_endpoint", 404, "user not found",
                            current_user.user.user_id, NoItem, NoUser, NoToken),
                   updated_user.db)
        ELSE Reply(Response("update_user_endpoint", 200, "", current_user.user.user_id,
                            NoItem, updated_user.ret, NoToken), updated_user.db)

\* The body of delete_user_endpoint, run with the user get_current_user returned.
delete_user_endpoint_body(db, current_user, user_id) ==
    LET deleted == delete_user(db, user_id)
    IN  IF ~deleted.ret
        THEN Reply(Response("delete_user_endpoint", 404, "user not found",
                            current_user.user_id, NoItem, NoUser, NoToken), deleted.db)
        ELSE Reply(Response("delete_user_endpoint", 200, "", current_user.user_id,
                            NoItem, NoUser, NoToken), deleted.db)

delete_user_endpoint(db, clock, token, user_id) ==
    LET current_user == get_current_user(token, db, clock)
    IN  IF current_user.status # 200 THEN Rejected("delete_user_endpoint", current_user, db)
        ELSE delete_user_endpoint_body(db, current_user.user, user_id)

----------------------------------------------------------------------------
(* The state machine *)

NoResponse == Response("none", 0, "", NoneStr, NoItem, NoUser, NoToken)

\* What is kept of a request's arguments: the user_id and password it carried
\* (in its body or query) and the datetime of its query.
Sent(user_id, password, date) == [user_id |-> user_id, password |-> password, date |-> date]
Nothing == Sent(NoneStr, NoneStr, NoDate)

Init ==
    /\ users = << >>
    /\ items = << >>
    /\ tokens = {}
    /\ now = 0
    /\ sent = Nothing
    /\ resp = NoResponse
    /\ inflight = {}

DB == Session(users, items)

\* What a client can put in the Authorization header: a token it was handed,
\* or a string that is no token.
Presentable == {t.token : t \in tokens} \cup {GarbageToken}

\* The arguments a request with token t is tried with.  A handler is not
\* called when get_current_user fails, so one value stands for all then.
Arguments(t, S) ==
    IF get_current_user(t, DB, now).status = 200 THEN S ELSE {CHOOSE x \in S : TRUE}

ItemIds == 1..MaxItemId

\* A request was answered: the store is as the handler left it.
Answer(r, s) ==
    /\ users' = r.db.users
    /\ items' = r.db.items
    /\ resp' = r.resp
    /\ sent' = s
    /\ UNCHANGED <<tokens, now, inflight>>

ReadItems == \E t \in Presentable : Answer(read_items_endpoint(DB, now, t), Nothing)

ReadItem ==
    \E t \in Presentable : \E id \in Arguments(t, ItemIds) :
        Answer(read_item_endpoint(DB, now, t, id), Nothing)

DeleteItem ==
    \E t \in Presentable : \E id \in Arguments(t, ItemIds) :
        Answer(delete_item_endpoint(DB, now, t, id), Nothing)

FinishItem ==
    \E t \in Presentable :
        \E id \in Arguments(t, ItemIds), d \in Arguments(t, Dates \cup {NoDate}) :
            Answer(finish_item_endpoint(DB, now, t, id, d), Sent(NoneStr, NoneStr, d))

\* The store holds ids up to MaxItemId: a request that would store a larger
\* one is left out.
CreateItem ==
    \E t \in Presentable : \E item \in Arguments(t, ItemBodies) :
        LET r == create_item_endpoint(DB, now, t, item)
        IN  /\ DOMAIN r.db.items \subseteq ItemIds
            /\ Answer(r, Sent(item.user_id, NoneStr, NoDate))

UpdateItem ==
    \E t \in Presentable :
        \E id \in Arguments(t, ItemIds), item \in Arguments(t, ItemBodies) :
            Answer(update_item_endpoint(DB, now, t, id, item),
                   Sent(item.user_id, NoneStr, NoDate))

GetUsersPath ==
    \E t \in Presentable, segment \in {""} \cup UserIds :
        Answer(get_users_path(DB, now, t, segment), Nothing)

CreateUser ==
    \E user \in UserBodies :
        Answer(create_user_endpoint(DB, user), Sent(user.user_id, user.password, NoDate))

\* A token that is handed out is remembered, MaxTokens of them at most.
Login ==
    \E user_id \in UserIds, password \in Passwords :
        LET r == read_user_by_id_and_password_endpoint(DB, now, user_id, password)
            handed == IF r.resp.token = NoToken THEN {}
                      ELSE {[token |-> r.resp.token, issued |-> now]}
        IN  /\ Cardinality(tokens \cup handed) <= MaxTokens
            /\ tokens' = tokens \cup handed
            /\ users' = r.db.users
            /\ items' = r.db.items
            /\ resp' = r.resp
            /\ sent' = Sent(user_id, password, NoDate)
            /\ UNCHANGED <<now, inflight>>

UpdateUser ==
    \E t \in Presentable :
        \E user_id \in Arguments(t, UserIds), user \in Arguments(t, UserBodies) :
            Answer(update_user_endpoint(DB, now, t, user_id, user), Nothing)

DeleteUser ==
    \E t \in Presentable : \E user_id \in Arguments(t, UserIds) :
        Answer(delete_user_endpoint(DB, now, t, user_id), Nothing)

Next ==
    \/ ReadItems \/ ReadItem \/ DeleteItem \/ FinishItem \/ CreateItem \/ UpdateItem
    \/ GetUsersPath \/ CreateUser \/ Login \/ UpdateUser \/ DeleteUser

\* Requests against a clock that stands still.
Spec == Init /\ [][Next]_vars

(* Time.  The clock is followed for MaxTick ticks from the start and for     *)
(* MaxTick ticks around a day later, which is where the tokens of the first *)
(* ticks expire.                                                             *)

Passes(ticks) ==
    /\ now' = now + ticks
    /\ sent' = Nothing
    /\ resp' = NoResponse
    /\ UNCHANGED <<users, items, tokens, inflight>>

Tick ==
    /\ now < MaxTick \/ (DayTicks - 1 <= now /\ now < DayTicks + MaxTick)
    /\ Passes(1)

\* One tick short of a day goes by.
Sleep ==
    /\ now <= MaxTick
    /\ Passes(DayTicks - 1)

\* The user and login requests, with time passing.
NextClock ==
    \/ GetUsersPath \/ CreateUser \/ Login \/ UpdateUser \/ DeleteUser
    \/ Tick \/ Sleep

SpecClock == Init /\ [][NextClock]_vars

(* Concurrent requests.  The handlers are coroutines: a request awaits      *)
(* get_current_user (its SELECT on todo_user), and only then its handler    *)
(* body runs and commits; between the two the event loop runs the steps of  *)
(* other requests.  A SELECT holds no lock once its row is fetched, so what *)
(* the body meets is the store as the other requests left it.               *)

MaxInflight == 2     \* requests between token resolution and handler body

\* A request whose token resolved to current_user, waiting for its body.
Waiting(op, current_user, item, user_id) ==
    [op |-> op, current_user |-> current_user, item |-> item, user_id |-> user_id]

NoBody == CHOOSE item \in ItemBodies : item.item_id = UnsetId

\* Depends(get_current_user) of a request to handler op: the request is
\* answered at once when the token resolves no user, and waits otherwise.
ResolveToken(op, t, item, user_id) ==
    LET current_user == get_current_user(t, DB, now)
    IN  IF current_user.status # 200
        THEN Answer(Rejected(op, current_user, DB), Nothing)
        ELSE /\ Cardinality(inflight) < MaxInflight
             /\ inflight' = inflight \cup {Waiting(op, current_user.user, item, user_id)}
             /\ UNCHANGED <<users, items, tokens, now, sent, resp>>

\* The body of a waiting request ran: the store is as it left it.
Completes(w, r, s) ==
    /\ inflight' = inflight \ {w}
    /\ users' = r.db.users
    /\ items' = r.db.items
    /\ resp' = r.resp
    /\ sent' = s
    /\ UNCHANGED <<tokens, now>>

\* The bodies a client sends that leaves item_id and finished_date unset.
PlainBodies == {item \in ItemBodies : item.item_id = UnsetId /\ item.finished_date = UnsetDate}

CreateItemResolve ==
    \E t \in Presentable : \E item \in Arguments(t, PlainBodies) :
        ResolveToken("create_item_endpoint", t, item, NoneStr)

CreateItemCommit ==
    \E w \in inflight :
        /\ w.op = "create_item_endpoint"
        /\ LET r == create_item_endpoint_body(DB, w.current_user, w.item)
           IN  /\ DOMAIN r.db.items \subseteq ItemIds
               /\ Completes(w, r, Sent(w.item.user_id, NoneStr, NoDate))

DeleteUserResolve ==
    \E t \in Presentable : \E user_id \in Arguments(t, UserIds) :
        ResolveToken("delete_user_endpoint", t, NoBody, user_id)

DeleteUserCommit ==
    \E w \in inflight :
        /\ w.op = "delete_user_endpoint"
        /\ Completes(w, delete_user_endpoint_body(DB, w.current_user, w.user_id), Nothing)

\* Register and login, and POST /items/ and DELETE /users/{user_id} in two
\* steps each, interleaved.
NextConcurrent ==
    \/ CreateUser \/ Login
    \/ CreateItemResolve \/ CreateItemCommit
    \/ DeleteUserResolve \/ DeleteUserCommit

SpecConcurrent == Init /\ [][NextConcurrent]_vars

----------------------------------------------------------------------------
(* Claims *)

Succeeded == resp.status \in {200, 201}

\* C1: an item returned by a successful POST /items/ or PUT /items/{item_id}
\* carries the user_id the caller's token resolved to, whatever user_id the
\* request body carried, and is the item the store holds under its item_id.
C1_OwnerForcedToCaller ==
    (/\ resp.op \in {"create_item_endpoint", "update_item_endpoint"}
     /\ Succeeded
     /\ resp.item # NoItem)
    => /\ resp.caller \in UserIds
       /\ resp.item.user_id = resp.caller
       /\ get_item_by_id(DB, resp.item.item_id) = resp.item

\* C1 witness: a POST whose body named another user than the caller returned an item.
C1_Witness ==
    /\ resp.op = "create_item_endpoint"
    /\ resp.status = 201
    /\ resp.item # NoItem
    /\ sent.user_id # resp.caller

\* C2: deleting a user cascades: after delete_user(U) on a stored user U,
\* U is no longer stored and get_item_by_user_id(U) is empty.
C2_DeleteUserCascades ==
    \A U \in DOMAIN users :
        LET after == delete_user(DB, U).db
        IN  /\ U \notin DOMAIN after.users
            /\ get_item_by_user_id(after, U) = {}

\* The instant the claim exp of a token issued at tick t0 names, in ticks.
ExpiresAt(t0) == (t0 \div TicksPerSecond) * TicksPerSecond + DayTicks

Resolves(tk) ==
    /\ tk.token.user_id \in DOMAIN users
    /\ get_current_user(tk.token, DB, now)
         = AuthResult(200, "", UserSchema(users, tk.token.user_id))

ExpiredError(tk) ==
    get_current_user(tk.token, DB, now) = AuthResult(401, "token expired", NoUser)

\* C3 as claimed: a token issued at t0 resolves to its user at every time
\* before t0 + 24h while the user is stored, and fails with the expiry error
\* at every time from t0 + 24h on.
C3_ValidFor24Hours ==
    \A tk \in tokens :
        /\ (now < tk.issued + DayTicks /\ tk.token.user_id \in DOMAIN users) => Resolves(tk)
        /\ now >= tk.issued + DayTicks => ExpiredError(tk)

\* C3 amended: the token resolves to its user at every time before the whole
\* second of t0 plus 24h while the user is stored, and fails with the expiry
\* error (not the invalid-token or user-not-found error) from that instant on.
C3_ValidUntilExp ==
    \A tk \in tokens :
        /\ (now < ExpiresAt(tk.issued) /\ tk.token.user_id \in DOMAIN users) => Resolves(tk)
        /\ now >= ExpiresAt(tk.issued) => ExpiredError(tk)

\* C3 witness: a token issued within a second was presented less than 24h
\* later, at the instant its exp names, and was refused as expired.
C3_Witness ==
    \E tk \in tokens :
        /\ tk.issued % TicksPerSecond # 0
        /\ now = ExpiresAt(tk.issued)
        /\ now < tk.issued + DayTicks
        /\ resp.status = 401 /\ resp.detail = "token expired"

LoggedIn == resp.op = "read_user_by_id_and_password_endpoint"

CredentialsMatch ==
    /\ sent.user_id \in DOMAIN users
    /\ users[sent.user_id].password = sent.password

\* C4: POST /users/login returns a token if and only if a stored user has the
\* user_id and the password sent; the token resolves back to that user; with
\* a wrong password or an unknown user_id the response is a failure without
\* token.
C4_LoginIffCredentials ==
    LoggedIn =>
        /\ resp.token # NoToken <=> CredentialsMatch
        /\ CredentialsMatch =>
             /\ resp.status = 200
             /\ get_current_user(resp.token, DB, now)
                  = AuthResult(200, "", UserSchema(users, sent.user_id))
        /\ ~CredentialsMatch => resp.status = 400

\* C4 witness: a login with the wrong password of a stored user was refused.
C4_Witness ==
    /\ LoggedIn
    /\ sent.user_id \in DOMAIN users
    /\ users[sent.user_id].password # sent.password
    /\ resp.status = 400 /\ resp.token = NoToken

Finished == resp.op = "finish_item_endpoint" /\ resp.status = 200

\* C5 as claimed: after update_finished_date(id, t) the item read back has
\* finished_date = t (absent for None).
C5_FinishedDateIsT ==
    Finished => get_item_by_id(DB, resp.item.item_id).finished_date = sent.date

\* t as a naive datetime: its wall-clock reading without the UTC offset.
Naive(t) == IF t = NoDate THEN NoDate ELSE [wall |-> t.wall, tz |-> "naive"]

\* C5 amended: after update_finished_date(id, t) the item read back has
\* finished_date = t without its UTC offset (absent for None); the call
\* applied twice leaves the store it leaves applied once; it changes nothing
\* but that field of that item.
C5_FinishedDateIsNaiveT ==
    /\ Finished => get_item_by_id(DB, resp.item.item_id).finished_date = Naive(sent.date)
    /\ \A id \in DOMAIN items, t \in Dates \cup {NoDate} :
          LET once == update_finished_date(DB, id, t)
          IN  /\ get_item_by_id(once.db, id) = [ItemSchema(items, id) EXCEPT !.finished_date = Naive(t)]
              /\ update_finished_date(once.db, id, t) = once
              /\ once.db.users = users
              /\ DOMAIN once.db.items = DOMAIN items
              /\ \A k \in DOMAIN items \ {id} : once.db.items[k] = items[k]

\* C5 witness: a finish request with a datetime that carries a UTC offset succeeded.
C5_Witness == Finished /\ sent.date.tz = "aware"

\* C6: delete_item and delete_user on an id that is not stored return False
\* and leave the store as it was; they return True only when the record was
\* stored before and is not after.
C6_DeleteAbsentIsFalse ==
    /\ \A id \in ItemIds :
          LET r == delete_item(DB, id)
          IN  /\ id \notin DOMAIN items => (~r.ret /\ r.db = DB)
              /\ r.ret => (id \in DOMAIN items /\ id \notin DOMAIN r.db.items)
    /\ \A id \in UserIds :
          LET r == delete_user(DB, id)
          IN  /\ id \notin DOMAIN users => (~r.ret /\ r.db = DB)
              /\ r.ret => (id \in DOMAIN users /\ id \notin DOMAIN r.db.users)

\* C6 witness: an authenticated DELETE /items/{item_id} found no such item.
C6_Witness ==
    /\ resp.op = "delete_item_endpoint"
    /\ resp.status = 404
    /\ resp.caller \in UserIds

\* C7: a stored user never changes its user_id: a user_id leaves the store
\* only when DELETE /users/{user_id} removes the user, and update_user(uid,
\* data) with another user_id in data does not put the record under that id.
C7_UserIdImmutable ==
    [][\A uid \in DOMAIN users :
          uid \notin DOMAIN users' => resp'.op = "delete_user_endpoint"]_vars

\* C8: the item_id of an item POST /items/ created is the one the store
\* assigns, whatever item_id the body carried, and is returned; PUT
\* /items/{item_id} leaves the record under the item_id it had.
C8_ItemIdSystemAssigned ==
    [][/\ (resp'.op = "create_item_endpoint" /\ resp'.item # NoItem) =>
             /\ resp'.item.item_id = Autoincrement(items)
             /\ DOMAIN items' = DOMAIN items \cup {resp'.item.item_id}
       /\ (resp'.op = "update_item_endpoint" /\ resp'.item # NoItem) =>
             /\ resp'.item.item_id \in DOMAIN items
             /\ DOMAIN items' = DOMAIN items]_vars

\* C9: GET /users/me with a token that resolves to user c answers with c,
\* whichever users are stored.
C9_MeIsCaller ==
    \A t \in Presentable :
        LET c == get_current_user(t, DB, now)
            r == get_users_path(DB, now, t, "me")
        IN  c.status = 200 =>
              /\ r.resp.status = 200
              /\ r.resp.user = c.user
              /\ r.resp.op = "get_my_info"

Ungated == {"none", "create_user_endpoint", "read_user_by_id_and_password_endpoint"}

\* C10: a request to a handler other than register and login whose token is
\* invalid, expired or names a user that is not stored is answered 401, and
\* the store is left as it was.
C10_AuthenticationGate ==
    [][(resp'.op \notin Ungated /\ resp'.caller = NoneStr) =>
          /\ resp'.status = 401
          /\ users' = users /\ items' = items]_vars

\* C11: at the step where create_item commits a new item, a user with that
\* item's user_id is stored, whatever steps of other requests ran between the
\* request's token resolution and its insert.
C11_OwnerLiveAtCommit ==
    [][(resp'.op = "create_item_endpoint" /\ DOMAIN items' # DOMAIN items) =>
          /\ resp'.item # NoItem
          /\ resp'.item.user_id \in DOMAIN users
          /\ resp'.item.user_id \in DOMAIN users']_vars

\* C12: PUT /items/{item_id} with a token that resolves a user and an item_id
\* that is not stored is answered 404 (not found), and the store is left as
\* it was.
C12_MissingItemIsNotFound ==
    \A t \in Presentable :
        get_current_user(t, DB, now).status = 200 =>
            \A id \in ItemIds \ DOMAIN items, item \in ItemBodies :
                LET r == update_item_endpoint(DB, now, t, id, item)
                IN  /\ r.resp.status = 404
                    /\ r.db = DB

\* C13: a POST /items/ whose insert the store rejected (create_item returned
\* None, no item was stored) is answered 400, never with the success status
\* 201.
C13_RejectedInsertIsBadRequest ==
    (/\ resp.op = "create_item_endpoint"
     /\ resp.caller \in UserIds
     /\ resp.item = NoItem)
    => /\ resp.status = 400
       /\ resp.status # 201

Registered == resp.op = "create_user_endpoint"

\* C14: create_user with a user_id that is stored returns None and leaves the
\* store as it was, and POST /users/ answers 400; a POST /users/ changes no
\* stored user and no item, and adds a user only under a user_id that was
\* free; no user_id is stored twice.
C14_RegistrationNeverOverwrites ==
    [][/\ \A user \in UserBodies :
             user.user_id \in DOMAIN users =>
                 /\ create_user(DB, user) = [ret |-> NoUser, db |-> DB]
                 /\ create_user_endpoint(DB, user).resp.status = 400
       /\ Registered' =>
             /\ \A u \in DOMAIN users : u \in DOMAIN users' /\ users'[u] = users[u]
             /\ items' = items
             /\ resp'.status = 400 <=> sent'.user_id \in DOMAIN users
             /\ resp'.status = 201 <=> DOMAIN users' = DOMAIN users \cup {sent'.user_id}
                                        /\ sent'.user_id \notin DOMAIN users
       /\ \A id \in UserIds :
             Cardinality({u \in get_users(DB) : u.user_id = id}) <= 1]_vars

\* C14 witness: a registration under a stored user_id, with another password
\* than the stored one, was refused.
C14_Witness ==
    /\ Registered
    /\ resp.status = 400
    /\ sent.user_id \in DOMAIN users
    /\ users[sent.user_id].password # sent.password

====
